---------------------------- MODULE Spec2Model ----------------------------
(***************************************************************************)
(* A model of the ring/node topology engine of Mesher                      *)
(* (src/src/mesher/geometry/ring.py, src/src/mesher/geometry/point.py).    *)
(*                                                                         *)
(* A Ring owns a Python list of Node objects (Ring._nodes).  Every Node    *)
(* wraps one Point (Node._value) and has two neighbour slots (Node._left,  *)
(* Node._right) that hold a reference to another Node or None.  Node       *)
(* objects are modelled as the integers 1..Len(value) in creation order;   *)
(* the three sequences value, left and right are the heap of Node objects  *)
(* and nodes is the list Ring._nodes.  A Node that was dropped from the    *)
(* list keeps its slots and can still be the target of a slot of a Node    *)
(* that is in the list, exactly as a Python object that is still           *)
(* referenced.                                                             *)
(*                                                                         *)
(* Python list indices are 0-based and may be negative; the sequences of   *)
(* the model are 1-based, so Item(s, i) reads s[i] the way Python does.    *)
(* A method that raises is modelled by the state it leaves behind: every   *)
(* statement executed before the raise has taken effect, and the frame's   *)
(* exc field names the exception.                                          *)
(***************************************************************************)
EXTENDS Integers, Sequences, FiniteSets, TLC

(***************************************************************************)
(* Bounds of the model.                                                    *)
(***************************************************************************)
\* the number of method calls made on the ring in one behaviour
MaxCalls == 5

\* the length of the rings a behaviour may start from
MaxLen == 5

\* the number of method calls made on a ring a behaviour starts from
MaxOps == 2

\* the length of the rings that are compared with each other
MaxEqLen == 4

\* the bits of the significand of a float.  Python's float has 53; the model
\* keeps the rounding of its arithmetic (to the nearest float, ties to the
\* even significand) and shortens the significand, so that results that do
\* not fit, and are rounded, occur with small coordinates
Significand == 4

\* a neighbour slot that is not set (Python's None)
None == 0

(***************************************************************************)
(* Points (point.py).  A float is the whole number of quarters it holds:   *)
(* One is 1.0.  TOL, 1e-10 in the code, is a half, so that two floats can  *)
(* differ by less than TOL, by TOL, and by more.                           *)
(***************************************************************************)
One == 4

TOL == 2

\* Point(x=px, y=py, ID=pid) with whole numbers px and py
Point(px, py, pid) == [x |-> px * One, y |-> py * One, ID |-> pid]

\* the points a caller hands to add_point and insert_point
PointSet == { Point(0, 0, 0), Point(1, 0, 1), Point(1, 2, 2) }

\* the points of the ring of the remove_collinear example: three of them
\* lie on the line y = 0
ScenarioPoints ==
    { Point(0, 0, 0), Point(1, 0, 1), Point(2, 0, 2), Point(1, 2, 3) }

\* points whose cross products add up to numbers that need rounding: with
\* the significand of 53 bits they are (0,1), (1,0), (2^27,1), (0,2^26)
AreaPoints ==
    { Point(0, 1, 0), Point(1, 0, 1),
      Point(2 ^ (Significand \div 2), 1, 2),
      Point(0, 2 ^ (Significand - Significand \div 2), 3) }

Abs(v) == IF v < 0 THEN -v ELSE v

\* the distance, in quarters, between the floats next to a >= 0
RECURSIVE ulp(_)
ulp(a) == IF a < 2 ^ Significand THEN 1 ELSE 2 * ulp(a \div 2)

\* the float that an operation with the exact result v returns
Float(v) ==
    LET a == Abs(v)
        u == ulp(a)
        q == a \div u
        r == a % u
        m == IF 2 * r > u \/ (2 * r = u /\ q % 2 = 1) THEN q + 1 ELSE q
    IN  IF v < 0 THEN -(m * u) ELSE m * u

\* the exact product of two floats, to the nearest quarter
Times(a, b) == (a * b + One \div 2) \div One

\* abs(v) < TOL
BelowTOL(v) == Abs(v) < TOL

\* Point.__sub__: component-wise, the IDs are summed
Point_sub(p, q) ==
    [x |-> Float(p.x - q.x), y |-> Float(p.y - q.y), ID |-> p.ID + q.ID]

\* a Point.__eq__ that takes a difference of TOL for equal
Point_eq_inclusive(p, q) ==
    Abs(Float(p.x - q.x)) <= TOL /\ Abs(Float(p.y - q.y)) <= TOL

\* Point.__eq__
Point_eq(p, q) == BelowTOL(Float(p.x - q.x)) /\ BelowTOL(Float(p.y - q.y))

cross_product(point1, point2) ==
    Float(Float(Times(point1.x, point2.y)) - Float(Times(point1.y, point2.x)))

are_collinear(point1, point2, point3) ==
    LET delta1 == Point_sub(point1, point2)
        delta2 == Point_sub(point1, point3)
    IN  BelowTOL(cross_product(delta1, delta2))

(***************************************************************************)
(* Python lists.                                                           *)
(***************************************************************************)
\* s[i] is defined for -len(s) <= i < len(s), otherwise IndexError
ValidIndex(s, i) == -Len(s) <= i /\ i < Len(s)

Item(s, i) == s[(IF i < 0 THEN i + Len(s) ELSE i) + 1]

\* del s[i]
DelItem(s, i) ==
    LET k == (IF i < 0 THEN i + Len(s) ELSE i) + 1
    IN  [j \in 1..(Len(s) - 1) |-> IF j < k THEN s[j] ELSE s[j + 1]]

\* s.insert(i, e) for i >= 0: an index beyond the end appends
InsertItem(s, i, e) ==
    LET k == (IF i > Len(s) THEN Len(s) ELSE i) + 1
    IN  [j \in 1..(Len(s) + 1) |->
            IF j < k THEN s[j] ELSE IF j = k THEN e ELSE s[j - 1]]

\* s.reverse()
Reverse(s) == [j \in 1..Len(s) |-> s[Len(s) + 1 - j]]

(***************************************************************************)
(* Frames: the ring and the heap while a method runs.  A statement applied *)
(* to a frame whose exc is set does nothing: the method has been left.     *)
(***************************************************************************)
Frame(ns, V, L, R) ==
    [nodes |-> ns, value |-> V, left |-> L, right |-> R, exc |-> "none"]

Raise(F, e) == [F EXCEPT !.exc = e]

Running(F) == F.exc = "none"

(***************************************************************************)
(* Node                                                                    *)
(***************************************************************************)
\* Node.has_connection
has_connection(F, node, option) ==
    IF option = "LEFT" THEN F.left[node] # None ELSE F.right[node] # None

\* Node.del_connection
del_connection(F, node, option) ==
    IF ~Running(F) THEN F
    ELSE IF option = "LEFT" THEN [F EXCEPT !.left[node] = None]
    ELSE IF option = "RIGHT" THEN [F EXCEPT !.right[node] = None]
    ELSE F

\* a setter of Node.left without the check of the slot
left_setter_overwrites(F, node, target) ==
    IF ~Running(F) THEN F
    ELSE [F EXCEPT !.left[node] = target]

\* the setter of Node.left
left_setter(F, node, target) ==
    IF ~Running(F) THEN F
    ELSE IF F.left[node] # None THEN Raise(F, "ValueError")
    ELSE [F EXCEPT !.left[node] = target]

\* the setter of Node.right
right_setter(F, node, target) ==
    IF ~Running(F) THEN F
    ELSE IF F.right[node] # None THEN Raise(F, "ValueError")
    ELSE [F EXCEPT !.right[node] = target]

(***************************************************************************)
(* Statements on list positions: self._nodes[i] raises IndexError when i   *)
(* is out of range; in an assignment the right-hand side is evaluated      *)
(* first.                                                                  *)
(***************************************************************************)
\* self._nodes[i].del_connection(option)
DelConnectionAt(F, i, option) ==
    IF ~Running(F) THEN F
    ELSE IF ~ValidIndex(F.nodes, i) THEN Raise(F, "IndexError")
    ELSE del_connection(F, Item(F.nodes, i), option)

\* self._nodes[i].left = self._nodes[j]
SetLeftAt(F, i, j) ==
    IF ~Running(F) THEN F
    ELSE IF ~ValidIndex(F.nodes, j) \/ ~ValidIndex(F.nodes, i)
         THEN Raise(F, "IndexError")
    ELSE left_setter(F, Item(F.nodes, i), Item(F.nodes, j))

\* self._nodes[i].right = self._nodes[j]
SetRightAt(F, i, j) ==
    IF ~Running(F) THEN F
    ELSE IF ~ValidIndex(F.nodes, j) \/ ~ValidIndex(F.nodes, i)
         THEN Raise(F, "IndexError")
    ELSE right_setter(F, Item(F.nodes, i), Item(F.nodes, j))

\* del self._nodes[i]
DelNodeAt(F, i) ==
    IF ~Running(F) THEN F
    ELSE IF ~ValidIndex(F.nodes, i) THEN Raise(F, "IndexError")
    ELSE [F EXCEPT !.nodes = DelItem(F.nodes, i)]

(***************************************************************************)
(* Ring                                                                    *)
(***************************************************************************)
\* Ring.closed without the test on the length
closed_any_length(F) ==
    \A k \in 1..Len(F.nodes) :
        /\ has_connection(F, F.nodes[k], "LEFT")
        /\ has_connection(F, F.nodes[k], "RIGHT")

\* Ring.closed
closed(F) ==
    IF Len(F.nodes) <= 2 THEN FALSE
    ELSE \A k \in 1..Len(F.nodes) :
            /\ has_connection(F, F.nodes[k], "LEFT")
            /\ has_connection(F, F.nodes[k], "RIGHT")

\* Ring.add_point without the test on closed
add_point_unchecked(F, point) ==
    [F EXCEPT !.nodes = Append(F.nodes, Len(F.value) + 1),
              !.value = Append(F.value, point),
              !.left  = Append(F.left, None),
              !.right = Append(F.right, None)]

\* Ring.add_point linking the new node to the node that was last
add_point_linked(F, point) ==
    IF closed(F) THEN Raise(F, "ValueError")
    ELSE [F EXCEPT !.nodes = Append(F.nodes, Len(F.value) + 1),
                   !.value = Append(F.value, point),
                   !.left  = Append(F.left, IF Len(F.nodes) = 0 THEN None
                                            ELSE Item(F.nodes, 0 - 1)),
                   !.right = Append(F.right, None)]

\* Ring.add_point
add_point(F, point) ==
    IF closed(F) THEN Raise(F, "ValueError")
    ELSE [F EXCEPT !.nodes = Append(F.nodes, Len(F.value) + 1),
                   !.value = Append(F.value, point),
                   !.left  = Append(F.left, None),
                   !.right = Append(F.right, None)]

\* the loop of Ring.close, from list position n on
RECURSIVE close_loop(_, _)
close_loop(F, n) ==
    IF n >= Len(F.nodes) \/ ~Running(F) THEN F
    ELSE LET n_before == n - 1
             n_after  == (n + 1) % Len(F.nodes)
         IN  close_loop(SetRightAt(SetLeftAt(F, n, n_before), n, n_after), n + 1)

\* Ring.close with a loop that starts at the second node
close_from_one(F) ==
    IF ~closed(F) \/ Len(F.nodes) > 2 THEN close_loop(F, 1) ELSE F

\* Ring.close
close(F) ==
    IF ~closed(F) \/ Len(F.nodes) > 2 THEN close_loop(F, 0) ELSE F

\* Ring.delete_point without the relinking of the neighbours
delete_point_no_relink(F, location) == DelNodeAt(F, location)

\* Ring.delete_point
delete_point(F, location) ==
    LET before == location - 1
        after  == (location + 1) % Len(F.nodes)
        F1 == DelConnectionAt(F, before, "RIGHT")
        F2 == DelConnectionAt(F1, after, "LEFT")
        F3 == SetRightAt(F2, before, after)
        F4 == SetLeftAt(F3, after, before)
    IN  IF closed(F) THEN DelNodeAt(F4, location) ELSE DelNodeAt(F, location)

\* Ring.insert_point that forgets to rebind the successor's left slot
insert_point_no_successor(F, point, location) ==
    LET wasClosed == closed(F)
        F0 == [F EXCEPT !.nodes = InsertItem(F.nodes, location, Len(F.value) + 1),
                        !.value = Append(F.value, point),
                        !.left  = Append(F.left, None),
                        !.right = Append(F.right, None)]
        succ == (location + 1) % Len(F0.nodes)
        F1 == DelConnectionAt(F0, location - 1, "RIGHT")
        F2 == SetRightAt(F1, location - 1, location)
        F3 == SetLeftAt(F2, location, location - 1)
        F4 == SetRightAt(F3, location, succ)
    IN  IF wasClosed THEN F4 ELSE F0

\* Ring.insert_point that splices whether or not the ring was closed
insert_point_always_splices(F, point, location) ==
    LET F0 == [F EXCEPT !.nodes = InsertItem(F.nodes, location, Len(F.value) + 1),
                        !.value = Append(F.value, point),
                        !.left  = Append(F.left, None),
                        !.right = Append(F.right, None)]
        succ == (location + 1) % Len(F0.nodes)
        F1 == DelConnectionAt(F0, location - 1, "RIGHT")
        F2 == SetRightAt(F1, location - 1, location)
        F3 == SetLeftAt(F2, location, location - 1)
        F4 == SetRightAt(F3, location, succ)
        F5 == DelConnectionAt(F4, succ, "LEFT")
    IN  SetLeftAt(F5, succ, location)

\* Ring.insert_point
insert_point(F, point, location) ==
    LET wasClosed == closed(F)
        F0 == [F EXCEPT !.nodes = InsertItem(F.nodes, location, Len(F.value) + 1),
                        !.value = Append(F.value, point),
                        !.left  = Append(F.left, None),
                        !.right = Append(F.right, None)]
        succ == (location + 1) % Len(F0.nodes)
        F1 == DelConnectionAt(F0, location - 1, "RIGHT")
        F2 == SetRightAt(F1, location - 1, location)
        F3 == SetLeftAt(F2, location, location - 1)
        F4 == SetRightAt(F3, location, succ)
        F5 == DelConnectionAt(F4, succ, "LEFT")
        F6 == SetLeftAt(F5, succ, location)
    IN  IF wasClosed THEN F6 ELSE F0

\* the first loop of Ring.remove_collinear, from i on: the indices that are
\* kept, or IndexError when del idxs[i + 1] is out of range
RECURSIVE collinear_loop(_, _, _)
collinear_loop(F, idxs, i) ==
    IF i >= Len(F.nodes) - 1 THEN [idxs |-> idxs, exc |-> "none"]
    ELSE LET n1 == Item(idxs, i % Len(idxs))
             n2 == Item(idxs, (i + 1) % Len(idxs))
             n3 == Item(idxs, (i + 2) % Len(idxs))
         IN  IF are_collinear(F.value[Item(F.nodes, n1)],
                              F.value[Item(F.nodes, n2)],
                              F.value[Item(F.nodes, n3)])
             THEN IF ValidIndex(idxs, i + 1)
                  THEN collinear_loop(F, DelItem(idxs, i + 1), i + 1)
                  ELSE [idxs |-> idxs, exc |-> "IndexError"]
             ELSE collinear_loop(F, idxs, i + 1)

\* the second loop of Ring.remove_collinear, from list position n on
RECURSIVE relink_loop(_, _)
relink_loop(F, n) ==
    IF n >= Len(F.nodes) \/ ~Running(F) THEN F
    ELSE LET n_before == n - 1
             n_after  == (n + 1) % Len(F.nodes)
             F1 == DelConnectionAt(F, n, "LEFT")
             F2 == DelConnectionAt(F1, n, "RIGHT")
             F3 == SetLeftAt(F2, n, n_before)
             F4 == SetRightAt(F3, n, n_after)
         IN  relink_loop(F4, n + 1)

\* remove_collinear without the loop that links the kept nodes again
remove_collinear_no_relink(F) ==
    LET kept == collinear_loop(F, [j \in 1..Len(F.nodes) |-> j - 1], 0)
        F1 == [F EXCEPT !.nodes =
                  [j \in 1..Len(kept.idxs) |-> Item(F.nodes, kept.idxs[j])]]
    IN  IF kept.exc # "none" THEN Raise(F, kept.exc) ELSE F1

\* Ring.remove_collinear
remove_collinear(F) ==
    LET kept == collinear_loop(F, [j \in 1..Len(F.nodes) |-> j - 1], 0)
        F1 == [F EXCEPT !.nodes =
                  [j \in 1..Len(kept.idxs) |-> Item(F.nodes, kept.idxs[j])]]
    IN  IF kept.exc # "none" THEN Raise(F, kept.exc) ELSE relink_loop(F1, 0)

\* reverse_orientation that reverses the list and leaves the links alone
reverse_orientation_order_only(F) ==
    IF closed(F) THEN [F EXCEPT !.nodes = Reverse(F.nodes)] ELSE F

\* the loop of Ring.reverse_orientation, from list position n on
RECURSIVE swap_loop(_, _)
swap_loop(F, n) ==
    IF n >= Len(F.nodes) \/ ~Running(F) THEN F
    ELSE LET node == Item(F.nodes, n)
             l == F.left[node]
             r == F.right[node]
             F1 == del_connection(F, node, "LEFT")
             F2 == del_connection(F1, node, "RIGHT")
             F3 == left_setter(F2, node, r)
             F4 == right_setter(F3, node, l)
         IN  swap_loop(F4, n + 1)

\* reverse_orientation that assigns node.left = node.right and then
\* node.right = node.left, one after the other
reverse_orientation_one_by_one(F) ==
    IF closed(F)
    THEN [F EXCEPT !.nodes = Reverse(F.nodes),
                   !.left  = [m \in DOMAIN F.left |->
                                 IF \E k \in 1..Len(F.nodes) : F.nodes[k] = m
                                 THEN F.right[m] ELSE F.left[m]]]
    ELSE F

\* Ring.reverse_orientation
reverse_orientation(F) ==
    IF closed(F) THEN swap_loop([F EXCEPT !.nodes = Reverse(F.nodes)], 0) ELSE F

(***************************************************************************)
(* The area.  The product ret * 0.5 is exact and need not be a whole       *)
(* number of quarters: it is the record of ret, in quarters, and of the    *)
(* denominator 2; the record with the denominator 0 stands for None.       *)
(***************************************************************************)
NoArea == [num |-> 0, den |-> 0]

\* ret * 0.5: the product with 0.5 is exact
Half(ret) == [num |-> ret, den |-> 2]

\* -a
Negated(a) == [num |-> -a.num, den |-> a.den]

\* the loop of Ring.area, from list position n on
RECURSIVE area_loop(_, _, _)
area_loop(F, n, ret) ==
    IF n >= Len(F.nodes) THEN ret
    ELSE LET p1 == F.value[Item(F.nodes, n)]
             p2 == F.value[Item(F.nodes, (n + 1) % Len(F.nodes))]
         IN  area_loop(F, n + 1, Float(ret + cross_product(p1, p2)))

\* area without the product with 0.5
area_unhalved(F) ==
    IF ~closed(F) THEN NoArea ELSE [num |-> area_loop(F, 0, 0), den |-> 1]

\* Ring.area
area(F) == IF ~closed(F) THEN NoArea ELSE Half(area_loop(F, 0, 0))

\* orientation that takes a ring of area 0 for a CCW ring
orientation_zero_is_CCW(F) ==
    IF ~closed(F) THEN "None"
    ELSE IF area(F).num >= 0 THEN "CCW"
    ELSE "CW"

\* Ring.orientation: "CCW", "CW", or "None" where the code returns None
orientation(F) ==
    IF ~closed(F) THEN "None"
    ELSE IF area(F).num > 0 THEN "CCW"
    ELSE IF area(F).num < 0 THEN "CW"
    ELSE "None"

\* is_CCW of Ring.is_convex: the flag of the triple that starts at position n
is_CCW(F, n) ==
    LET p1 == F.value[Item(F.nodes, n)]
        p2 == F.value[Item(F.nodes, (n + 1) % Len(F.nodes))]
        p3 == F.value[Item(F.nodes, (n + 2) % Len(F.nodes))]
    IN  cross_product(Point_sub(p1, p2), Point_sub(p1, p3)) > 0

\* is_convex that wants every triple to turn counter-clockwise
is_convex_CCW_only(F) ==
    IF ~closed(F) THEN "None"
    ELSE IF \A n \in 0..(Len(F.nodes) - 1) : is_CCW(F, n) THEN "True"
    ELSE "False"

\* Ring.is_convex: "True", "False", or "None" where the code returns None
is_convex(F) ==
    IF ~closed(F) THEN "None"
    ELSE IF \/ \A n \in 0..(Len(F.nodes) - 1) : is_CCW(F, n)
            \/ \A n \in 0..(Len(F.nodes) - 1) : ~is_CCW(F, n)
         THEN "True"
    ELSE "False"

(***************************************************************************)
(* The comparison of two rings.  Both rings keep their Nodes in the same   *)
(* heap F; self and other are their lists _nodes.  A comparison changes    *)
(* nothing; it returns "True" or "False" or raises the exception named.    *)
(***************************************************************************)
\* Ring.__contains__ of the ring with the list ns
Ring_contains(F, ns, point) ==
    \E k \in 1..Len(ns) : Point_eq(point, F.value[ns[k]])

\* find_point that returns the last index that holds the point
find_point_last(F, ns, point) ==
    LET hits == { k \in 0..(Len(ns) - 1) : Point_eq(point, F.value[Item(ns, k)]) }
    IN  IF hits = {} THEN 0 - 1
        ELSE CHOOSE k \in hits : \A h \in hits : k >= h

\* Ring.find_point of the ring with the list ns: the first index that holds
\* the point, and -1 where the code returns None
find_point(F, ns, point) ==
    LET hits == { k \in 0..(Len(ns) - 1) : Point_eq(point, F.value[Item(ns, k)]) }
    IN  IF hits = {} THEN 0 - 1
        ELSE CHOOSE k \in hits : \A h \in hits : k <= h

\* the loop of Ring.__eq__, from the pointers ptr0 and ptr1 on
RECURSIVE eq_loop(_, _, _, _, _)
eq_loop(F, self, other, ptr0, ptr1) ==
    IF ~ValidIndex(self, ptr0) \/ ~ValidIndex(other, ptr1) THEN "IndexError"
    ELSE LET n0 == Item(self, ptr0)
             n1 == Item(other, ptr1)
             next0 == (ptr0 + 1) % Len(self)
             next1 == (ptr1 + 1) % Len(other)
         IN  IF ~Point_eq(F.value[n0], F.value[n1]) THEN "False"
             ELSE IF F.left[n0] = None \/ F.left[n1] = None
                  THEN "AttributeError"
             ELSE IF ~Point_eq(F.value[F.left[n0]], F.value[F.left[n1]])
                  THEN "False"
             ELSE IF F.right[n0] = None \/ F.right[n1] = None
                  THEN "AttributeError"
             ELSE IF ~Point_eq(F.value[F.right[n0]], F.value[F.right[n1]])
                  THEN "False"
             ELSE IF next1 = 0 THEN "True"
             ELSE eq_loop(F, self, other, next0, next1)

\* a Ring.__eq__ that starts at the place where self[0] was found
Ring_eq_from_found(F, self, other) ==
    IF Len(self) # Len(other) THEN "False"
    ELSE IF ~ValidIndex(self, 0) THEN "IndexError"
    ELSE IF ~Ring_contains(F, other, F.value[Item(self, 0)]) THEN "False"
    ELSE eq_loop(F, self, other,
                 find_point(F, other, F.value[Item(self, 0)]), 1)

\* Ring.__eq__: self == other
Ring_eq(F, self, other) ==
    IF Len(self) # Len(other) THEN "False"
    ELSE IF ~ValidIndex(self, 0) THEN "IndexError"
    ELSE IF ~Ring_contains(F, other, F.value[Item(self, 0)]) THEN "False"
    ELSE eq_loop(F, self, other,
                 find_point(F, other, F.value[Item(self, 0)]) + 1, 1)

\* Ring() in a program that has no Node yet
NewRing == Frame(<<>>, <<>>, <<>>, <<>>)

(***************************************************************************)
(* Text.  A str is the sequence of its characters, a file is the sequence  *)
(* of its lines without their "\n".  str() and float() and int() are       *)
(* computed digit by digit; a float is a whole number of quarters, so its  *)
(* repr has one of the fractions .0 .25 .5 .75, and float() rounds the     *)
(* decimal it reads to the nearest quarter, ties to even.                  *)
(***************************************************************************)
Digits == << "0", "1", "2", "3", "4", "5", "6", "7", "8", "9" >>

IsDigit(c) == \E k \in 1..Len(Digits) : Digits[k] = c

DigitValue(c) == (CHOOSE k \in 1..Len(Digits) : Digits[k] = c) - 1

\* str(n) of an int n >= 0
RECURSIVE str_nat(_)
str_nat(n) ==
    IF n < Len(Digits) THEN << Digits[n + 1] >>
    ELSE Append(str_nat(n \div Len(Digits)), Digits[(n % Len(Digits)) + 1])

\* str(i) of an int
str_int(i) == IF i < 0 THEN << "-" >> \o str_nat(0 - i) ELSE str_nat(i)

\* the digits after the point in the repr of a float, by its quarters
Fraction == << << "0" >>, << "2", "5" >>, << "5" >>, << "7", "5" >> >>

\* str(v) of a float
str_float(v) ==
    (IF v < 0 THEN << "-" >> ELSE << >>)
        \o str_nat(Abs(v) \div One) \o << "." >> \o Fraction[(Abs(v) % One) + 1]

\* the int a str of digits stands for
RECURSIVE nat_of(_)
nat_of(s) ==
    IF Len(s) = 0 THEN 0
    ELSE Len(Digits) * nat_of(SubSeq(s, 1, Len(s) - 1)) + DigitValue(s[Len(s)])

AllDigits(s) == \A k \in 1..Len(s) : IsDigit(s[k])

\* str.rstrip()
RECURSIVE rstrip(_)
rstrip(s) ==
    IF Len(s) > 0 /\ s[Len(s)] = " " THEN rstrip(SubSeq(s, 1, Len(s) - 1)) ELSE s

\* str.lstrip()
RECURSIVE lstrip(_)
lstrip(s) ==
    IF Len(s) > 0 /\ s[1] = " " THEN lstrip(SubSeq(s, 2, Len(s))) ELSE s

\* str.split(","): the parts between the commas, the empty ones too
RECURSIVE split(_)
split(s) ==
    IF \A k \in 1..Len(s) : s[k] # "," THEN << s >>
    ELSE LET k == CHOOSE k \in 1..Len(s) :
                      s[k] = "," /\ \A j \in 1..(k - 1) : s[j] # ","
         IN  << SubSeq(s, 1, k - 1) >> \o split(SubSeq(s, k + 1, Len(s)))

\* the str without the blanks around it and without its sign
Unsigned(s) ==
    LET t == lstrip(rstrip(s))
    IN  IF Len(t) > 0 /\ t[1] = "-" THEN SubSeq(t, 2, Len(t)) ELSE t

Sign(s) ==
    LET t == lstrip(rstrip(s))
    IN  IF Len(t) > 0 /\ t[1] = "-" THEN 0 - 1 ELSE 1

\* int(s): the value, or ok = FALSE where int raises ValueError
int(s) ==
    LET u == Unsigned(s)
    IN  IF Len(u) > 0 /\ AllDigits(u)
        THEN [ok |-> TRUE, v |-> Sign(s) * nat_of(u)]
        ELSE [ok |-> FALSE, v |-> 0]

\* the quarters nearest to the decimal fraction 0.f, ties to even
Quarters(f) ==
    LET scale == Len(Digits) ^ Len(f)
        q     == (nat_of(f) * One) \div scale
        rem   == (nat_of(f) * One) % scale
    IN  IF 2 * rem > scale \/ (2 * rem = scale /\ q % 2 = 1) THEN q + 1 ELSE q

\* float(s): the value, or ok = FALSE where float raises ValueError
float(s) ==
    LET u     == Unsigned(s)
        parts == IF \E k \in 1..Len(u) : u[k] = "."
                 THEN LET k == CHOOSE k \in 1..Len(u) : u[k] = "." /\ \A j \in 1..(k - 1) : u[j] # "."
                      IN  << SubSeq(u, 1, k - 1), SubSeq(u, k + 1, Len(u)) >>
                 ELSE << u, << >> >>
    IN  IF AllDigits(parts[1]) /\ AllDigits(parts[2]) /\ Len(parts[1]) + Len(parts[2]) > 0
        THEN [ok |-> TRUE,
              v  |-> Sign(s) * (nat_of(parts[1]) * One + Quarters(parts[2]))]
        ELSE [ok |-> FALSE, v |-> 0]

(***************************************************************************)
(* Writer and Reader.  The file system is a function from paths to files;  *)
(* a mapping of named rings (a dict) is the sequence of its items in       *)
(* insertion order, each ring a frame of its own.                          *)
(***************************************************************************)
\* Ring.__iter__: the points of the ring in list order
Ring_iter(F) == [k \in 1..Len(F.nodes) |-> F.value[F.nodes[k]]]

\* f"{point.x},{point.y},{point.ID}"
PointLine(point) ==
    str_float(point.x) \o << "," >> \o str_float(point.y) \o << "," >> \o str_int(point.ID)

\* the lines write puts out for the items of data from the k-th on
RECURSIVE Lines(_, _)
Lines(data, k) ==
    IF k > Len(data) THEN << >>
    ELSE << data[k].name >>
            \o [j \in 1..Len(data[k].ring.nodes) |-> PointLine(Ring_iter(data[k].ring)[j])]
            \o Lines(data, k + 1)

\* a Writer.write that does not look whether the file is there
Writer_write_overwrites(fs, filename, data) ==
    [files |-> [fs EXCEPT ![filename] = [exists |-> TRUE, lines |-> Lines(data, 1)]],
     exc   |-> "none"]

\* Writer.write
Writer_write(fs, filename, data) ==
    IF fs[filename].exists
    THEN [files |-> fs, exc |-> "OSError: already exists!"]
    ELSE [files |-> [fs EXCEPT ![filename] = [exists |-> TRUE, lines |-> Lines(data, 1)]],
          exc   |-> "none"]

\* the position of the key name in the dict data, 0 when it is not a key
KeyIndex(data, name) ==
    IF \E k \in 1..Len(data) : data[k].name = name
    THEN CHOOSE k \in 1..Len(data) : data[k].name = name
    ELSE 0

\* the loop of Reader.read from line k on; current is the position of
\* current_name in data, 0 while current_name is None
RECURSIVE read_loop(_, _, _, _)
read_loop(lines, k, data, current) ==
    IF k > Len(lines) THEN [data |-> data, exc |-> "none"]
    ELSE LET content == split(rstrip(lines[k]))
         IN  IF Len(content) = 1
             THEN IF KeyIndex(data, content[1]) = 0
                  THEN read_loop(lines, k + 1,
                                 Append(data, [name |-> content[1], ring |-> NewRing]),
                                 Len(data) + 1)
                  ELSE read_loop(lines, k + 1,
                                 [data EXCEPT ![KeyIndex(data, content[1])].ring = NewRing],
                                 KeyIndex(data, content[1]))
             ELSE IF ~float(content[1]).ok \/ ~float(content[2]).ok
                  THEN [data |-> << >>, exc |-> "ValueError"]
             ELSE IF Len(content) < 3 THEN [data |-> << >>, exc |-> "IndexError"]
             ELSE IF ~int(content[3]).ok THEN [data |-> << >>, exc |-> "ValueError"]
             ELSE IF current = 0 THEN [data |-> << >>, exc |-> "KeyError"]
             ELSE read_loop(lines, k + 1,
                            [data EXCEPT ![current].ring =
                                add_point(@, [x  |-> float(content[1]).v,
                                              y  |-> float(content[2]).v,
                                              ID |-> int(content[3]).v])],
                            current)

\* Reader.read
Reader_read(fs, filename) ==
    IF ~fs[filename].exists
    THEN [data |-> << >>, exc |-> "OSError: doesn't exist!"]
    ELSE read_loop(fs[filename].lines, 1, << >>, 0)

(***************************************************************************)
(* The state machine: one ring, driven by a caller that calls its public   *)
(* methods in any order with any arguments.                                *)
(***************************************************************************)
VARIABLES
    nodes,    \* Ring._nodes: the Node objects of the ring, in list order
    value,    \* value[n]: Node._value of Node n
    left,     \* left[n]: Node._left of Node n (None when not set)
    right,    \* right[n]: Node._right of Node n (None when not set)
    call,     \* the last call made: its name, its arguments, the exception
              \* it ended with ("none" when it returned) and its number
    pre,      \* the ring and the heap as they were when that call began
    other,    \* the list _nodes of a second Ring (its Nodes are in the same
              \* heap), for the comparison of two rings
    result,   \* what the last comparison or query returned or raised
    files     \* the file system: for every path, whether a file is there
              \* and its lines

vars == <<nodes, value, left, right, call, pre, other, result, files>>

\* the paths of the file system
Paths == { "test.txt" }

\* a file system without files
NoFiles == [p \in Paths |-> [exists |-> FALSE, lines |-> << >>]]

\* the frame of the current state
Cur == Frame(nodes, value, left, right)

\* the frame the last call started from
Pre == Frame(pre.nodes, pre.value, pre.left, pre.right)

\* the argument of a call that takes no location
NoLocation == 0 - 1

\* the argument of a call that takes no point
NoPoint == Point(0, 0, 0 - 1)

Init ==
    /\ nodes = <<>>
    /\ value = <<>>
    /\ left = <<>>
    /\ right = <<>>
    /\ call = [op |-> "init", point |-> NoPoint, location |-> NoLocation,
               exc |-> "none", n |-> 0]
    /\ pre = [nodes |-> <<>>, value |-> <<>>, left |-> <<>>, right |-> <<>>]
    /\ other = <<>>
    /\ result = "none"
    /\ files = NoFiles

\* the state after a call that ran F to its end or to its raise
Returns(op, point, location, F) ==
    /\ call.n < MaxCalls
    /\ nodes' = F.nodes
    /\ value' = F.value
    /\ left' = F.left
    /\ right' = F.right
    /\ call' = [op |-> op, point |-> point, location |-> location,
                exc |-> F.exc, n |-> call.n + 1]
    /\ pre' = [nodes |-> nodes, value |-> value, left |-> left, right |-> right]
    /\ UNCHANGED <<other, result, files>>

AddPoint ==
    \E p \in PointSet : Returns("add_point", p, NoLocation, add_point(Cur, p))

Close == Returns("close", NoPoint, NoLocation, close(Cur))

\* location: every position of the list and the first one beyond its end
DeletePoint ==
    \E at \in 0..Len(nodes) :
        Returns("delete_point", NoPoint, at, delete_point(Cur, at))

\* location: every insertion position (0..len) and the first one beyond
InsertPoint ==
    \E p \in PointSet, at \in 0..(Len(nodes) + 1) :
        Returns("insert_point", p, at, insert_point(Cur, p, at))

RemoveCollinear ==
    Returns("remove_collinear", NoPoint, NoLocation, remove_collinear(Cur))

ReverseOrientation ==
    Returns("reverse_orientation", NoPoint, NoLocation, reverse_orientation(Cur))

Next ==
    \/ AddPoint
    \/ Close
    \/ DeletePoint
    \/ InsertPoint
    \/ RemoveCollinear
    \/ ReverseOrientation

Spec == Init /\ [][Next]_vars

(***************************************************************************)
(* A second state machine: the behaviour starts from a ring that was built *)
(* by one add_point per point and then closed, of any length from 3 to     *)
(* MaxLen and with any points of the remove_collinear example, and the     *)
(* caller then calls remove_collinear and reverse_orientation, MaxOps      *)
(* times in all.  call and pre tell of the calls made after the ring was   *)
(* built.                                                                  *)
(***************************************************************************)
\* the frame after add_point was called with pts[k], ..., pts[Len(pts)]
RECURSIVE add_points(_, _, _)
add_points(F, pts, k) ==
    IF k > Len(pts) THEN F ELSE add_points(add_point(F, pts[k]), pts, k + 1)

\* a ring built by Ring(), add_point(pts[1]), ..., close(), in the heap of F
Built(F, pts) == close(add_points([F EXCEPT !.nodes = <<>>], pts, 1))

InitClosed ==
    \E n \in 3..MaxLen :
        \E pts \in [1..n -> ScenarioPoints] :
            \E F \in { Built(NewRing, pts) } :
                /\ nodes = F.nodes
                /\ value = F.value
                /\ left = F.left
                /\ right = F.right
                /\ call = [op |-> "init", point |-> NoPoint,
                           location |-> NoLocation, exc |-> "none", n |-> 0]
                /\ pre = [nodes |-> <<>>, value |-> <<>>, left |-> <<>>,
                          right |-> <<>>]
                /\ other = <<>>
                /\ result = "none"
                /\ files = NoFiles

ThenRemoveCollinear == call.n < MaxOps /\ RemoveCollinear

ThenReverseOrientation == call.n < MaxOps /\ ReverseOrientation

NextClosed ==
    \/ ThenRemoveCollinear
    \/ ThenReverseOrientation

SpecClosed == InitClosed /\ [][NextClosed]_vars

(***************************************************************************)
(* The second state machine with other points: the behaviour starts from   *)
(* a closed ring of the points AreaPoints, of any length from 3 to MaxLen, *)
(* and the caller reverses its orientation, MaxOps times in all.           *)
(***************************************************************************)
InitArea ==
    \E n \in 3..MaxLen :
        \E pts \in [1..n -> AreaPoints] :
            \E F \in { Built(NewRing, pts) } :
                /\ nodes = F.nodes
                /\ value = F.value
                /\ left = F.left
                /\ right = F.right
                /\ call = [op |-> "init", point |-> NoPoint,
                           location |-> NoLocation, exc |-> "none", n |-> 0]
                /\ pre = [nodes |-> <<>>, value |-> <<>>, left |-> <<>>,
                          right |-> <<>>]
                /\ other = <<>>
                /\ result = "none"
                /\ files = NoFiles

NextArea == ThenReverseOrientation

SpecArea == InitArea /\ [][NextArea]_vars

(***************************************************************************)
(* The state machine of the tests: the behaviour starts from one of the    *)
(* sample rings of the tests, four closed ones and two open ones, and the  *)
(* caller calls the methods of the ring, MaxOps times in all.              *)
(***************************************************************************)
SampleRings ==
    << [closed |-> TRUE,
        points |-> <<Point(0, 0, 0), Point(1, 0, 1), Point(1, 2, 2),
                     Point(0, 2, 3)>>],
       [closed |-> TRUE,
        points |-> <<Point(0, 0, 0), Point(0, 2, 1), Point(1, 2, 2),
                     Point(1, 0, 3)>>],
       [closed |-> TRUE,
        points |-> <<Point(0, 0, 0), Point(2, 2, 1), Point(0, 1, 2),
                     Point(-2, 2, 3)>>],
       [closed |-> TRUE,
        points |-> <<Point(0, 0, 0), Point(-2, 2, 1), Point(0, 1, 2),
                     Point(2, 2, 3)>>],
       [closed |-> FALSE,
        points |-> <<Point(0, 0, 0), Point(0, 1, 1)>>],
       [closed |-> FALSE,
        points |-> <<Point(0, 0, 0), Point(1, 0, 1), Point(0, 1, 2)>>] >>

InitSample ==
    \E k \in 1..Len(SampleRings) :
        \E F \in { IF SampleRings[k].closed
                    THEN Built(NewRing, SampleRings[k].points)
                    ELSE add_points(NewRing, SampleRings[k].points, 1) } :
            /\ nodes = F.nodes
            /\ value = F.value
            /\ left = F.left
            /\ right = F.right
            /\ call = [op |-> "init", point |-> NoPoint,
                       location |-> NoLocation, exc |-> "none", n |-> 0]
            /\ pre = [nodes |-> <<>>, value |-> <<>>, left |-> <<>>,
                      right |-> <<>>]
            /\ other = <<>>
            /\ result = "none"
            /\ files = NoFiles

ThenAddPoint == call.n < MaxOps /\ AddPoint

ThenClose == call.n < MaxOps /\ Close

ThenDeletePoint == call.n < MaxOps /\ DeletePoint

ThenInsertPoint == call.n < MaxOps /\ InsertPoint

\* what a query returned: the text of the value
Returned(v) == IF v = 0 - 1 THEN "None" ELSE ToString(v)

\* a query of the ring: the ring is left as it is
Answers(op, point, answer) ==
    /\ call.n < MaxOps
    /\ result' = answer
    /\ call' = [op |-> op, point |-> point, location |-> NoLocation,
                exc |-> "none", n |-> call.n + 1]
    /\ pre' = [nodes |-> nodes, value |-> value, left |-> left, right |-> right]
    /\ UNCHANGED <<nodes, value, left, right, other, files>>

\* the points asked for: the points of the rings under other IDs, and the
\* point the tests look for
QueryPoints == PointSet \cup { Point(0, 1, 0 - 1) }

\* ring.find_point(p)
FindPoint ==
    \E p \in QueryPoints :
        Answers("find_point", p, Returned(find_point(Cur, nodes, p)))

\* p in ring
Contains ==
    \E p \in QueryPoints :
        Answers("__contains__", p,
                IF Ring_contains(Cur, nodes, p) THEN "True" ELSE "False")

NextSample ==
    \/ FindPoint
    \/ Contains
    \/ ThenAddPoint
    \/ ThenClose
    \/ ThenDeletePoint
    \/ ThenInsertPoint
    \/ ThenRemoveCollinear
    \/ ThenReverseOrientation

SpecSample == InitSample /\ [][NextSample]_vars

(***************************************************************************)
(* The Nodes on their own: three Nodes that are in no ring, either as      *)
(* their constructor leaves them or with both slots of the first Node set  *)
(* as the tests set them, and at most MaxOps calls of the setters and of   *)
(* del_connection on them.                                                 *)
(***************************************************************************)
NodePoints == << Point(0, 0, 0), Point(0, 1, 1), Point(1, 0, 2) >>

NeighborOption == { "LEFT", "RIGHT" }

InitNode ==
    /\ nodes = << 1, 2, 3 >>
    /\ value = NodePoints
    /\ \/ left = << None, None, None >> /\ right = << None, None, None >>
       \/ left = << 2, None, None >> /\ right = << 3, None, None >>
    /\ call = [op |-> "init", node |-> None, target |-> None, option |-> "none",
               exc |-> "none", n |-> 0]
    /\ pre = [nodes |-> nodes, value |-> value, left |-> left, right |-> right]
    /\ other = <<>>
    /\ result = "none"
    /\ files = NoFiles

\* a call on a Node: the slots as the call leaves them, and how it ended
NodeReturns(op, node, target, option, F) ==
    /\ call.n < MaxOps
    /\ left' = F.left
    /\ right' = F.right
    /\ call' = [op |-> op, node |-> node, target |-> target, option |-> option,
                exc |-> F.exc, n |-> call.n + 1]
    /\ pre' = [nodes |-> nodes, value |-> value, left |-> left, right |-> right]
    /\ UNCHANGED <<nodes, value, other, result, files>>

\* node.left = target
AssignLeft ==
    \E node \in 1..Len(value), target \in 1..Len(value) :
        NodeReturns("left", node, target, "LEFT", left_setter(Cur, node, target))

\* node.right = target
AssignRight ==
    \E node \in 1..Len(value), target \in 1..Len(value) :
        NodeReturns("right", node, target, "RIGHT", right_setter(Cur, node, target))

\* node.del_connection(option)
DelConnection ==
    \E node \in 1..Len(value), option \in NeighborOption :
        NodeReturns("del_connection", node, None, option,
                    del_connection(Cur, node, option))

NextNode ==
    \/ AssignLeft
    \/ AssignRight
    \/ DelConnection

SpecNode == InitNode /\ [][NextNode]_vars

(***************************************************************************)
(* The files: a caller that writes mappings of named rings to the path and *)
(* reads the path, in any order.  The names are the two of the tests, one  *)
(* with a blank at its end and one with a comma in it; the rings are the   *)
(* closed triangle of the tests and an open one whose coordinates have     *)
(* fractions, a sign or two digits.                                        *)
(***************************************************************************)
RingNames ==
    { << "f", "o", "o" >>, << "b", "a", "r" >>, << "f", "o", "o", " " >>,
      << "f", "o", "o", ",", "b", "a", "r" >> }

FileRings ==
    { Built(NewRing, << Point(0, 0, 0), Point(1, 0, 1), Point(1, 1, 2) >>),
      add_points(NewRing, << [x |-> 0 - 5, y |-> 1, ID |-> 12],
                             [x |-> 2, y |-> 8, ID |-> 0 - 3],
                             [x |-> 43, y |-> 0, ID |-> 0] >>, 1) }

\* the dicts of at most two named rings
Mappings ==
    LET Items == [name : RingNames, ring : FileRings]
    IN  { << >> } \cup { << i >> : i \in Items }
            \cup { p \in { << i, j >> : i \in Items, j \in Items } :
                        p[1].name # p[2].name }

\* what a call that returns no mapping leaves in result
NoData == [data |-> << >>, exc |-> "none"]

InitFile ==
    /\ nodes = << >>
    /\ value = << >>
    /\ left = << >>
    /\ right = << >>
    /\ call = [op |-> "init", filename |-> "", data |-> << >>, exc |-> "none"]
    /\ pre = [files |-> NoFiles]
    /\ other = << >>
    /\ result = NoData
    /\ files = NoFiles

\* Writer.write(filename, data)
Write ==
    \E filename \in Paths, data \in Mappings :
        LET w == Writer_write(files, filename, data)
        IN  /\ files' = w.files
            /\ call' = [op |-> "write", filename |-> filename, data |-> data,
                        exc |-> w.exc]
            /\ pre' = [files |-> files]
            /\ result' = NoData
            /\ UNCHANGED <<nodes, value, left, right, other>>

\* data = Reader.read(filename)
Read ==
    \E filename \in Paths :
        LET r == Reader_read(files, filename)
        IN  /\ result' = r
            /\ call' = [op |-> "read", filename |-> filename, data |-> << >>,
                        exc |-> r.exc]
            /\ pre' = [files |-> files]
            /\ UNCHANGED <<nodes, value, left, right, other, files>>

NextFile ==
    \/ Write
    \/ Read

SpecFile == InitFile /\ [][NextFile]_vars

(***************************************************************************)
(* The points: any two points whose coordinates are up to MaxCoord         *)
(* quarters from 0, so that they differ by nothing, by less than TOL, by   *)
(* TOL or by more, with the same ID or not, are compared once.             *)
(***************************************************************************)
MaxCoord == 2

InitPoint ==
    /\ nodes = << >>
    /\ value = << >>
    /\ left = << >>
    /\ right = << >>
    /\ \E p, q \in [x : (0 - MaxCoord)..MaxCoord, y : (0 - MaxCoord)..MaxCoord,
                     ID : {0, 1}] :
          call = [op |-> "init", point |-> p, other |-> q, exc |-> "none", n |-> 0]
    /\ pre = [nodes |-> << >>, value |-> << >>, left |-> << >>, right |-> << >>]
    /\ other = << >>
    /\ result = "none"
    /\ files = NoFiles

\* point == other
Equals ==
    /\ call.op = "init"
    /\ call' = [call EXCEPT !.op = "__eq__", !.n = 1]
    /\ result' = IF Point_eq(call.point, call.other) THEN "True" ELSE "False"
    /\ UNCHANGED <<nodes, value, left, right, pre, other, files>>

NextPoint == Equals

SpecPoint == InitPoint /\ [][NextPoint]_vars

(***************************************************************************)
(* Another state machine: two rings, each built by one add_point per point *)
(* and then closed, of any lengths from 3 to MaxEqLen and with any points  *)
(* of PointSet, are compared, and so is a ring with itself.  No call is    *)
(* made on either ring after it was built.                                 *)
(***************************************************************************)
InitEq ==
    \E n \in 3..MaxEqLen, m \in 3..MaxEqLen :
        \E pts \in [1..n -> PointSet], qts \in [1..m -> PointSet] :
            \E A \in { Built(NewRing, pts) } :
                \E B \in { Built(A, qts), A } :
                    /\ nodes = A.nodes
                    /\ other = B.nodes
                    /\ value = B.value
                    /\ left = B.left
                    /\ right = B.right
                    /\ call = [op |-> "init", point |-> NoPoint,
                               location |-> NoLocation, exc |-> "none", n |-> 0]
                    /\ pre = [nodes |-> <<>>, value |-> <<>>, left |-> <<>>,
                              right |-> <<>>]
                    /\ result = "none"
                    /\ files = NoFiles

\* ring == other_ring
Compare ==
    /\ result = "none"
    /\ result' = Ring_eq(Cur, nodes, other)
    /\ UNCHANGED <<nodes, value, left, right, call, pre, other, files>>

NextEq == Compare

SpecEq == InitEq /\ [][NextEq]_vars

(***************************************************************************)
(* Vocabulary of the properties.                                           *)
(***************************************************************************)
\* the Node objects that exist in frame F
Heap(F) == 1..Len(F.value)

\* the Node objects in the list of F
InRing(F) == { F.nodes[k] : k \in 1..Len(F.nodes) }

\* node[i].left is node[(i-1) mod n] and node[i].right is node[(i+1) mod n]
Circular(F) ==
    \A k \in 1..Len(F.nodes) :
        /\ F.left[F.nodes[k]] = F.nodes[IF k = 1 THEN Len(F.nodes) ELSE k - 1]
        /\ F.right[F.nodes[k]] = F.nodes[IF k = Len(F.nodes) THEN 1 ELSE k + 1]

\* every Node of the list has both slots set
AllLinked(F) ==
    \A k \in 1..Len(F.nodes) :
        F.left[F.nodes[k]] # None /\ F.right[F.nodes[k]] # None

\* no Node of the list has a slot set
NoLinks(F) ==
    \A k \in 1..Len(F.nodes) :
        F.left[F.nodes[k]] = None /\ F.right[F.nodes[k]] = None

\* the list and every slot of every Node are what they were before the call
RingUnchanged ==
    /\ nodes = pre.nodes
    /\ value = pre.value
    /\ left = pre.left
    /\ right = pre.right

\* every Node that existed before the call has the slots and the value it had
OldNodesUnchanged ==
    \A m \in Heap(Pre) :
        left[m] = pre.left[m] /\ right[m] = pre.right[m] /\ value[m] = pre.value[m]

\* the second ring and the heap
Other == Frame(other, value, left, right)

\* the points of the ring, in list order
Points(F) == [k \in 1..Len(F.nodes) |-> F.value[F.nodes[k]]]

\* the points P and Q have the same coordinates, one by one
SameCoordinates(P, Q) ==
    /\ Len(P) = Len(Q)
    /\ \A k \in 1..Len(P) : P[k].x = Q[k].x /\ P[k].y = Q[k].y

\* the square of the tests
Square == SampleRings[1].points

\* the concave ring of the tests, an arrow head
Arrow == SampleRings[3].points

\* three points that follow each other around the ring lie on one line
HasCollinearTriple(F) ==
    LET n == Len(F.nodes)  P == Points(F)
    IN  \E k \in 0..(n - 1) :
            are_collinear(P[k + 1], P[((k + 1) % n) + 1], P[((k + 2) % n) + 1])


\* the Node object the last call created
NewNode == Len(pre.value) + 1

(***************************************************************************)
(* C1.  Whenever the ring reports closed, node[i].left is node[(i-1) mod   *)
(* n] and node[i].right is node[(i+1) mod n]: no Node of a closed ring     *)
(* links to itself, to nothing or to a Node outside the ring.  The code    *)
(* does not keep this: delete_point relinks before it raises IndexError,   *)
(* and close() raises after it has linked some of the nodes.               *)
(***************************************************************************)
C1_ClosedIsCircular == closed(Cur) => Circular(Cur)

(***************************************************************************)
(* C2.  Once the ring reports closed it still reports closed after         *)
(* insert_point (0 <= at <= length), delete_point (0 <= at < length),      *)
(* remove_collinear and reverse_orientation, also at length 3.  The code   *)
(* does not keep this: delete_point on a closed ring of 3 nodes leaves 2   *)
(* nodes, and closed is False for 2 nodes.                                 *)
(***************************************************************************)
C2_ClosedIsStable ==
    ( /\ closed(Pre)
      /\ \/ call.op = "insert_point"
            /\ 0 <= call.location /\ call.location <= Len(pre.nodes)
         \/ call.op = "delete_point"
            /\ 0 <= call.location /\ call.location < Len(pre.nodes)
         \/ call.op = "remove_collinear"
         \/ call.op = "reverse_orientation" )
    => closed(Cur)

(***************************************************************************)
(* C3.  close() on a ring of n >= 3 nodes none of which has a link         *)
(* returns, sets node[i].left = node[(i-1) mod n] and node[i].right =      *)
(* node[(i+1) mod n] for every i, keeps the order of the nodes and their   *)
(* points, and the ring reports closed afterwards.                         *)
(***************************************************************************)
C3_CloseLinksTheRing ==
    (call.op = "close" /\ Len(pre.nodes) >= 3 /\ NoLinks(Pre))
    => /\ call.exc = "none"
       /\ nodes = pre.nodes
       /\ value = pre.value
       /\ Circular(Cur)
       /\ closed(Cur)

C3_Witness ==
    /\ call.op = "close"
    /\ Len(pre.nodes) >= 3
    /\ NoLinks(Pre)
    /\ closed(Cur)

(***************************************************************************)
(* C4.  add_point on a ring that reports closed raises ValueError and      *)
(* leaves the list of nodes and every slot unchanged.                      *)
(***************************************************************************)
C4_AddPointOnClosedRaises ==
    (call.op = "add_point" /\ closed(Pre))
    => (call.exc = "ValueError" /\ RingUnchanged)

C4_Witness ==
    /\ call.op = "add_point"
    /\ closed(Pre)
    /\ call.exc = "ValueError"

(***************************************************************************)
(* C5.  add_point(p) on a ring that does not report closed returns and     *)
(* appends exactly one new Node, wrapping p and with both slots empty, at  *)
(* the end of the list: the length grows by 1, and the nodes that were     *)
(* there keep their order, their points and their slots.                   *)
(***************************************************************************)
C5_AddPointAppends ==
    (call.op = "add_point" /\ ~closed(Pre))
    => /\ call.exc = "none"
       /\ Len(nodes) = Len(pre.nodes) + 1
       /\ \A k \in 1..Len(pre.nodes) : nodes[k] = pre.nodes[k]
       /\ nodes[Len(nodes)] = NewNode
       /\ Len(value) = NewNode
       /\ value[NewNode] = call.point
       /\ left[NewNode] = None
       /\ right[NewNode] = None
       /\ OldNodesUnchanged

\* add_point on a ring that is not closed although some node has a link
C5_Witness ==
    /\ call.op = "add_point"
    /\ ~closed(Pre)
    /\ ~NoLinks(Pre)
    /\ Len(nodes) = Len(pre.nodes) + 1

(***************************************************************************)
(* C6.  closed is true exactly when the ring has more than 2 nodes and     *)
(* every node has both its left and its right slot set; so closed is       *)
(* false at length <= 2 whatever slots the nodes carry.                    *)
(***************************************************************************)
C6_ClosedIffLongAndLinked ==
    /\ closed(Cur) <=> (Len(nodes) > 2 /\ AllLinked(Cur))
    /\ Len(nodes) <= 2 => ~closed(Cur)

\* two nodes, both slots of both set, and the ring does not report closed
C6_Witness ==
    /\ Len(nodes) = 2
    /\ AllLinked(Cur)
    /\ ~closed(Cur)

(***************************************************************************)
(* C7.  close() on a ring of fewer than 3 nodes is a no-op: no node gets   *)
(* a left or right slot and the list is unchanged.  The code links the     *)
(* nodes of such a ring (a single node to itself).                         *)
(***************************************************************************)
C7_CloseShortRingIsNoOp ==
    (call.op = "close" /\ Len(pre.nodes) < 3) => RingUnchanged

(***************************************************************************)
(* C8.  close() on a ring that already reports closed returns without an   *)
(* error and leaves every slot as it was.  The code raises ValueError      *)
(* from the setter of the first node's left slot.                          *)
(***************************************************************************)
C8_CloseTwiceIsSafe ==
    (call.op = "close" /\ closed(Pre))
    => (call.exc = "none" /\ left = pre.left /\ right = pre.right)

(***************************************************************************)
(* C9.  insert_point(p, at) on a ring of n nodes that reports closed, 0 <= *)
(* at <= n, returns and puts a new Node wrapping p at index at: the length *)
(* is n + 1 and the other nodes keep their order; the new node's left is   *)
(* its cyclic predecessor and its right its cyclic successor, the          *)
(* predecessor's right and the successor's left are the new node, every    *)
(* other slot is unchanged, and the ring still reports closed.             *)
(***************************************************************************)
C9_InsertSplices ==
    (call.op = "insert_point" /\ closed(Pre)
        /\ 0 <= call.location /\ call.location <= Len(pre.nodes))
    => LET n    == Len(pre.nodes)
           at   == call.location
           pred == pre.nodes[IF at = 0 THEN n ELSE at]
           succ == pre.nodes[IF at = n THEN 1 ELSE at + 1]
       IN  /\ call.exc = "none"
           /\ Len(nodes) = n + 1
           /\ nodes[at + 1] = NewNode
           /\ \A k \in 1..n : nodes[IF k <= at THEN k ELSE k + 1] = pre.nodes[k]
           /\ Len(value) = NewNode
           /\ value[NewNode] = call.point
           /\ left[NewNode] = pred
           /\ right[NewNode] = succ
           /\ right[pred] = NewNode
           /\ left[succ] = NewNode
           /\ \A m \in Heap(Pre) :
                 /\ value[m] = pre.value[m]
                 /\ m # succ => left[m] = pre.left[m]
                 /\ m # pred => right[m] = pre.right[m]
           /\ closed(Cur)

\* an insertion at index 0 of a closed ring: the predecessor is the last node
C9_Witness ==
    /\ call.op = "insert_point"
    /\ closed(Pre)
    /\ call.location = 0
    /\ call.exc = "none"
    /\ Len(nodes) = Len(pre.nodes) + 1

C11_OpenRingOnlyResizes ==
    LET n  == Len(pre.nodes)
        at == call.location
    IN  /\ (call.op = "insert_point" /\ NoLinks(Pre) /\ 0 <= at /\ at <= n)
           => /\ call.exc = "none"
              /\ Len(nodes) = n + 1
              /\ nodes[at + 1] = NewNode
              /\ \A k \in 1..n : nodes[IF k <= at THEN k ELSE k + 1] = pre.nodes[k]
              /\ Len(value) = NewNode
              /\ value[NewNode] = call.point
              /\ left[NewNode] = None
              /\ right[NewNode] = None
              /\ OldNodesUnchanged
              /\ NoLinks(Cur)
        /\ (call.op = "delete_point" /\ NoLinks(Pre) /\ 0 <= at /\ at < n)
           => /\ call.exc = "none"
              /\ Len(nodes) = n - 1
              /\ \A k \in 1..(n - 1) :
                    nodes[k] = pre.nodes[IF k <= at THEN k ELSE k + 1]
              /\ value = pre.value
              /\ left = pre.left
              /\ right = pre.right
              /\ NoLinks(Cur)

\* an insertion in the middle of an unlinked ring long enough to be closed
C11_Witness ==
    /\ call.op = "insert_point"
    /\ NoLinks(Pre)
    /\ Len(pre.nodes) >= 3
    /\ call.location = 1
    /\ Len(nodes) = Len(pre.nodes) + 1

(***************************************************************************)
(* C12: when remove_collinear returns from a call on a closed ring, no     *)
(* three points that follow each other around the ring, the two triples    *)
(* across the end of the list included, lie on one line.                   *)
(***************************************************************************)
C12_NoCollinearTripleLeft ==
    (call.op = "remove_collinear" /\ call.exc = "none" /\ closed(Pre))
        => ~HasCollinearTriple(Cur)

(***************************************************************************)
(* C13: a call of remove_collinear that immediately follows a call of      *)
(* remove_collinear that returned on a closed ring returns too and removes *)
(* no point: the ring holds the same nodes in the same order.              *)
(***************************************************************************)
C13_RemoveCollinearIsIdempotent ==
    [][(/\ call.op = "remove_collinear"
        /\ call.exc = "none"
        /\ closed(Pre)
        /\ call'.op = "remove_collinear")
          => (call'.exc = "none" /\ nodes' = nodes)]_vars

(***************************************************************************)
(* C14: remove_collinear returns, without raising, from a call on any      *)
(* closed ring, whatever points it holds: points that lie on one line, at  *)
(* the end of the list too, and points that are equal.                     *)
(***************************************************************************)
C14_RemoveCollinearReturns ==
    (call.op = "remove_collinear" /\ closed(Pre)) => call.exc = "none"

(***************************************************************************)
(* C15: on the closed ring of the points (0,0), (1,0), (2,0), (1,2) with   *)
(* the IDs 0, 1, 2, 3, remove_collinear removes the node at index 1 and    *)
(* no other: the ring keeps the nodes of the IDs 0, 2, 3 in this order,    *)
(* the right of node 0 is node 2 and the left of node 2 is node 0, and the *)
(* three nodes are linked in a circle.                                     *)
(***************************************************************************)
ScenarioRing ==
    <<Point(0, 0, 0), Point(1, 0, 1), Point(2, 0, 2), Point(1, 2, 3)>>

C15_ScenarioRemovesIndexOne ==
    (call.op = "remove_collinear" /\ Points(Pre) = ScenarioRing /\ closed(Pre))
        => /\ call.exc = "none"
           /\ nodes = <<pre.nodes[1], pre.nodes[3], pre.nodes[4]>>
           /\ [k \in 1..Len(nodes) |-> Points(Cur)[k].ID] = <<0, 2, 3>>
           /\ value = pre.value
           /\ right[nodes[1]] = nodes[2]
           /\ left[nodes[2]] = nodes[1]
           /\ Circular(Cur)
           /\ closed(Cur)

\* remove_collinear has returned from a call on the closed ring of the example
C15_Witness ==
    /\ call.op = "remove_collinear"
    /\ Points(Pre) = ScenarioRing
    /\ closed(Pre)
    /\ Len(nodes) = 3

(***************************************************************************)
(* C16: a closed ring A compares equal to every closed ring B that holds   *)
(* the same points in the same cyclic order and starts k positions later,  *)
(* B[j] = A[(j + k) mod n], for every k from 0 to n - 1.                   *)
(***************************************************************************)
IsRotation(P, Q, k) ==
    /\ Len(P) = Len(Q)
    /\ \A j \in 0..(Len(P) - 1) : Q[j + 1] = P[((j + k) % Len(P)) + 1]

C16_EqualityIgnoresRotation ==
    (/\ result # "none"
     /\ closed(Cur)
     /\ closed(Other)
     /\ \E k \in 0..(Len(nodes) - 1) : IsRotation(Points(Cur), Points(Other), k))
        => result = "True"

(***************************************************************************)
(* C17: a closed ring of three or more points, no two of them equal, that  *)
(* does not read the same in both directions, compared with the closed     *)
(* ring that holds the same points in reversed order, gives False.         *)
(***************************************************************************)
PairwiseDistinct(P) ==
    \A j, k \in 1..Len(P) : j # k => ~Point_eq(P[j], P[k])

C17_EqualityTellsDirection ==
    (/\ result # "none"
     /\ closed(Cur)
     /\ closed(Other)
     /\ Len(nodes) >= 3
     /\ PairwiseDistinct(Points(Cur))
     /\ Points(Cur) # Reverse(Points(Cur))
     /\ Points(Other) = Reverse(Points(Cur)))
        => result = "False"

(***************************************************************************)
(* C18: the comparison of two closed rings, of equal or of different       *)
(* lengths and with any points, returns True or False and never raises.    *)
(***************************************************************************)
C18_EqualityNeverRaises ==
    (result # "none" /\ closed(Cur) /\ closed(Other))
        => result \in {"True", "False"}

C20_ReverseNegatesArea ==
    (call.op = "reverse_orientation" /\ closed(Pre))
        => area(Cur) = Negated(area(Pre))

(***************************************************************************)
(* C21: reverse_orientation flips the orientation of every closed ring: a  *)
(* CCW ring becomes CW, a CW ring becomes CCW, and a ring whose area is 0, *)
(* which has no orientation, has none afterwards.                          *)
(***************************************************************************)
Flipped(o) == IF o = "CCW" THEN "CW" ELSE IF o = "CW" THEN "CCW" ELSE o

C21_ReverseFlipsOrientation ==
    (call.op = "reverse_orientation" /\ closed(Pre))
        => orientation(Cur) = Flipped(orientation(Pre))

(***************************************************************************)
(* C22: area is None when the ring does not report closed; otherwise it is *)
(* 0.5 times the sum, over the positions i of the list in order, of        *)
(* cross(p_i, p_((i+1) mod n)) with cross(a, b) = a.x*b.y - a.y*b.x: 2.0   *)
(* for the square and -2.0 for the square reversed.                        *)
(***************************************************************************)
RECURSIVE ShoelaceSum(_, _)
ShoelaceSum(P, i) ==
    IF i = 0 THEN 0
    ELSE LET a == P[i]
             b == P[(i % Len(P)) + 1]
         IN  Float(ShoelaceSum(P, i - 1)
                   + Float(Float(Times(a.x, b.y)) - Float(Times(a.y, b.x))))

C22_AreaIsShoelaceSum ==
    /\ ~closed(Cur) => area(Cur) = NoArea
    /\ closed(Cur)
          => area(Cur) = [num |-> ShoelaceSum(Points(Cur), Len(nodes)), den |-> 2]
    /\ (closed(Cur) /\ SameCoordinates(Points(Cur), Square))
          => area(Cur) = [num |-> 4 * One, den |-> 2]
    /\ (closed(Cur) /\ SameCoordinates(Points(Cur), Reverse(Square)))
          => area(Cur) = [num |-> -(4 * One), den |-> 2]

\* the square has been reversed and its area is -2.0
C22_Witness ==
    /\ call.op = "reverse_orientation"
    /\ closed(Cur)
    /\ SameCoordinates(Points(Cur), Reverse(Square))
    /\ area(Cur) = [num |-> -(4 * One), den |-> 2]

TurnsLeft(P, i) ==
    LET n == Len(P)
        a == P[i]
        b == P[(i % n) + 1]
        c == P[((i + 1) % n) + 1]
        d1 == [x |-> Float(a.x - b.x), y |-> Float(a.y - b.y)]
        d2 == [x |-> Float(a.x - c.x), y |-> Float(a.y - c.y)]
    IN  Float(Float(Times(d1.x, d2.y)) - Float(Times(d1.y, d2.x))) > 0

IndicesOf(p) ==
    { i \in 0..(Len(nodes) - 1) :
        /\ Abs(Points(Cur)[i + 1].x - p.x) < TOL
        /\ Abs(Points(Cur)[i + 1].y - p.y) < TOL }

C25_FindPointReturnsFirstIndex ==
    /\ call.op = "find_point"
          => /\ RingUnchanged
             /\ IndicesOf(call.point) = {} => result = "None"
             /\ \A i \in IndicesOf(call.point) :
                   (\A j \in IndicesOf(call.point) : i <= j) => result = ToString(i)
             /\ result # "None" <=> Ring_contains(Cur, nodes, call.point)
             /\ (call.point = Point(0, 1, 0 - 1) /\ SameCoordinates(Points(Cur), Square))
                   => result = "None"
             /\ (call.point = Point(0, 1, 0 - 1) /\ SameCoordinates(Points(Cur), Arrow))
                   => result = "2"
    /\ call.op = "__contains__"
          => /\ RingUnchanged
             /\ result \in {"True", "False"}
             /\ result = "True" <=> find_point(Cur, nodes, call.point) # 0 - 1
             /\ result = "True" <=> IndicesOf(call.point) # {}

\* find_point has found a point that the ring holds twice, under another ID
C25_Witness ==
    /\ call.op = "find_point"
    /\ \E i, j \in IndicesOf(call.point) :
          i < j /\ result = ToString(i) /\ Points(Cur)[i + 1].ID # call.point.ID

(***************************************************************************)
(* C26: a slot of a Node that is set is never overwritten: an assignment   *)
(* to it ends with ValueError and leaves it as it was, and an assignment   *)
(* to an empty slot sets it; a set slot changes only by del_connection of  *)
(* that slot, which empties it; del_connection never fails, leaves the     *)
(* other slot and the other Nodes alone, and a second del_connection       *)
(* changes nothing.                                                        *)
(***************************************************************************)
\* the slot of a Node in a frame
Slot(F, node, option) == IF option = "LEFT" THEN F.left[node] ELSE F.right[node]

\* every slot but the one the call was about is what it was before the call
OtherSlotsUnchanged ==
    \A m \in Heap(Pre), o \in NeighborOption :
        (m # call.node \/ o # call.option) => Slot(Cur, m, o) = Slot(Pre, m, o)

C26_SetSlotIsNotOverwritten ==
    /\ call.op \in {"left", "right"}
          => /\ OtherSlotsUnchanged
             /\ Slot(Pre, call.node, call.option) # None
                   => /\ call.exc = "ValueError"
                      /\ Slot(Cur, call.node, call.option)
                            = Slot(Pre, call.node, call.option)
             /\ Slot(Pre, call.node, call.option) = None
                   => /\ call.exc = "none"
                      /\ Slot(Cur, call.node, call.option) = call.target
    /\ call.op = "del_connection"
          => /\ OtherSlotsUnchanged
             /\ call.exc = "none"
             /\ Slot(Cur, call.node, call.option) = None
             /\ del_connection(Cur, call.node, call.option) = Cur
    /\ \A m \in Heap(Pre), o \in NeighborOption :
          (Slot(Pre, m, o) # None /\ Slot(Cur, m, o) # Slot(Pre, m, o))
              => /\ call.op = "del_connection"
                 /\ call.node = m
                 /\ call.option = o
                 /\ Slot(Cur, m, o) = None
    /\ value = pre.value

\* an assignment to the left slot of the Node of the tests, which is set,
\* has ended with ValueError
C26_Witness ==
    /\ call.op = "left"
    /\ call.exc = "ValueError"
    /\ call.node = 1
    /\ call.target # pre.left[1]
    /\ pre.left[1] = 2
    /\ left[1] = 2

(***************************************************************************)
(* C27: after a mapping of named rings was written to a path that held no  *)
(* file, reading the path returns a mapping with the same names, each ring *)
(* with the same points (x, y and ID) in the same order, and no ring of it *)
(* is closed.                                                              *)
(***************************************************************************)
\* the rings a and b hold the same points in the same order
SamePoints(a, b) ==
    /\ Len(a.nodes) = Len(b.nodes)
    /\ \A k \in 1..Len(a.nodes) : Ring_iter(a)[k] = Ring_iter(b)[k]

\* read holds the names and the points of data, and no closed ring
ReadBack(data, read) ==
    /\ read.exc = "none"
    /\ Len(read.data) = Len(data)
    /\ \A k \in 1..Len(data) :
          \E j \in 1..Len(read.data) :
              /\ read.data[j].name = data[k].name
              /\ SamePoints(read.data[j].ring, data[k].ring)
              /\ ~closed(read.data[j].ring)

C27_WriteThenReadRoundTrip ==
    (call.op = "write" /\ call.exc = "none")
        => ReadBack(call.data, Reader_read(files, call.filename))

(***************************************************************************)
(* C28: Writer.write to a path that holds a file ends with the OSError     *)
(* "already exists" and leaves the file as it was; Reader.read of a path   *)
(* that holds no file ends with the OSError "doesn't exist", returns no    *)
(* mapping and creates no file.                                            *)
(***************************************************************************)
C28_ExistingAndMissingPaths ==
    /\ (call.op = "write" /\ pre.files[call.filename].exists)
          => /\ call.exc = "OSError: already exists!"
             /\ files = pre.files
    /\ (call.op = "write" /\ ~pre.files[call.filename].exists)
          => /\ call.exc = "none"
             /\ files[call.filename].exists
    /\ (call.op = "read" /\ ~pre.files[call.filename].exists)
          => /\ call.exc = "OSError: doesn't exist!"
             /\ result.data = << >>
             /\ files = pre.files
    /\ (call.op = "read" /\ pre.files[call.filename].exists)
          => /\ call.exc # "OSError: doesn't exist!"
             /\ files = pre.files

\* a mapping with a ring was written to the path that held the lines of
\* another mapping, and the write has failed
C28_Witness ==
    /\ call.op = "write"
    /\ call.exc = "OSError: already exists!"
    /\ Len(call.data) > 0
    /\ files[call.filename].lines # << >>
    /\ files[call.filename].lines # Lines(call.data, 1)

(***************************************************************************)
(* C29: p == q is true exactly when the x of the two points differ by less *)
(* than TOL and their y differ by less than TOL, whatever the two IDs are; *)
(* a difference of exactly TOL makes them unequal.                         *)
(***************************************************************************)
C29_EqualWithinTolerance ==
    call.op = "__eq__"
        => /\ result = "True"
                 <=> /\ Abs(call.point.x - call.other.x) < TOL
                     /\ Abs(call.point.y - call.other.y) < TOL
           /\ (Abs(call.point.x - call.other.x) = TOL
                   \/ Abs(call.point.y - call.other.y) = TOL) => result = "False"

\* two points with different IDs whose x differ by less than TOL, and not
\* by 0, were found equal
C29_Witness ==
    /\ call.op = "__eq__"
    /\ result = "True"
    /\ call.point.ID # call.other.ID
    /\ call.point.x # call.other.x

(***************************************************************************)
(* C30: after every call, either no Node of the ring has a link, or the    *)
(* ring is closed (more than two points, every Node with both links); a    *)
(* ring with some links only, or a ring of one or two points with all its  *)
(* links, is never reached.                                                *)
(***************************************************************************)
C30_OnlyTwoLinkStates == NoLinks(Cur) \/ closed(Cur)

(***************************************************************************)
(* C31: a close() that raises leaves the list and every link of every Node *)
(* as they were before the call, so a ring that was not closed before a    *)
(* close() that raised is not closed after it.                             *)
(***************************************************************************)
C31_FailedCloseChangesNothing ==
    (call.op = "close" /\ call.exc # "none")
        => /\ RingUnchanged
           /\ ~closed(Pre) => ~closed(Cur)

(***************************************************************************)
(* C32: on a closed ring of length n, delete_point(at) with at >= n and    *)
(* insert_point(p, at) with at > n end with IndexError and leave the list  *)
(* and every link as they were before the call.                            *)
(***************************************************************************)
C32_IndexErrorChangesNothing ==
    /\ (call.op = "delete_point" /\ closed(Pre) /\ call.location >= Len(pre.nodes))
          => call.exc = "IndexError" /\ RingUnchanged
    /\ (call.op = "insert_point" /\ closed(Pre) /\ call.location > Len(pre.nodes))
          => call.exc = "IndexError" /\ RingUnchanged

(***************************************************************************)
(* C33: for two closed rings A and B, A == B and B == A end the same way:  *)
(* both return True or both return False.                                  *)
(***************************************************************************)
C33_EqualityIsSymmetric ==
    (result # "none" /\ closed(Cur) /\ closed(Other))
        => /\ result \in {"True", "False"}
           /\ Ring_eq(Cur, other, nodes) = result

(***************************************************************************)
(* C34: a closed ring of three or more points, repeated points or not,     *)
(* compared with itself gives True.                                        *)
(***************************************************************************)
C34_EqualityIsReflexive ==
    (result # "none" /\ closed(Cur) /\ other = nodes) => result = "True"

\* a closed ring that holds its first point once more was compared with
\* itself and found equal
C34_Witness ==
    /\ result = "True"
    /\ other = nodes
    /\ closed(Cur)
    /\ \E k \in 2..Len(nodes) : Point_eq(Points(Cur)[1], Points(Cur)[k])

(***************************************************************************)
(* C35: is_convex of a closed ring is the same before and after            *)
(* reverse_orientation(), also when the turn at some point of the ring is  *)
(* exactly 0.                                                              *)
(***************************************************************************)
C35_ConvexityIgnoresDirection ==
    (call.op = "reverse_orientation" /\ closed(Pre))
        => is_convex(Cur) = is_convex(Pre)

(***************************************************************************)
(* C36: on a closed ring of length n and for every at from 0 to n,         *)
(* insert_point(p, at) followed by delete_point(at) leaves the list with   *)
(* the Nodes it had, in the order they had, and every one of them with the *)
(* left and the right link it had before the two calls.                    *)
(***************************************************************************)
C36_InsertThenDeleteIsIdentity ==
    (/\ call.op = "insert_point"
     /\ closed(Pre)
     /\ 0 <= call.location
     /\ call.location <= Len(pre.nodes))
        => LET D == delete_point(Cur, call.location)
           IN  /\ call.exc = "none"
               /\ D.exc = "none"
               /\ D.nodes = pre.nodes
               /\ \A m \in Heap(Pre) :
                     D.left[m] = pre.left[m] /\ D.right[m] = pre.right[m]

(***************************************************************************)
(* C37: reverse_orientation() called twice in a row gives back the list in *)
(* its order and every Node its left and its right link, on every ring.    *)
(***************************************************************************)
C37_ReverseTwiceIsIdentity ==
    call.op = "reverse_orientation"
        => LET R == reverse_orientation(Cur)
           IN  /\ call.exc = "none"
               /\ R.exc = "none"
               /\ R.nodes = pre.nodes
               /\ R.left = pre.left
               /\ R.right = pre.right
               /\ R.value = pre.value

\* the first call has reversed a closed ring that does not read the same
\* in both directions, and a second call gives the ring back
C37_Witness ==
    /\ call.op = "reverse_orientation"
    /\ closed(Pre)
    /\ nodes # pre.nodes
    /\ left # pre.left
    /\ reverse_orientation(Cur).nodes = pre.nodes
    /\ reverse_orientation(Cur).left = pre.left

(***************************************************************************)
(* C38: remove_collinear() on a ring that is not closed leaves it not      *)
(* closed and sets no link of any Node, so that add_point does not raise   *)
(* after it.                                                               *)
(***************************************************************************)
C38_RemoveCollinearDoesNotClose ==
    (call.op = "remove_collinear" /\ ~closed(Pre))
        => /\ ~closed(Cur)
           /\ \A m \in Heap(Pre) :
                 /\ pre.left[m] = None => left[m] = None
                 /\ pre.right[m] = None => right[m] = None
           /\ \A p \in PointSet : add_point(Cur, p).exc = "none"

=============================================================================
